---- MODULE Spec2Model ----
(***************************************************************************)
(* The price-monitoring engine of the repository: the alerts table, and    *)
(* the background task monitor_alerts of its two programs.                 *)
(*   mode = "PERSISTENT" is src/main.py (keeps the alert after notifying), *)
(*   mode = "ONE_SHOT"   is src/bot.py  (deletes the alert after it).      *)
(* The web pages, the Telegram send and the SQLite calls are the           *)
(* environment: every fetch draws its outcome, and every send and every    *)
(* database call draws whether it raises.                                  *)
(* The users' requests (delete, delete all, edit threshold) and the intake *)
(* handlers (/search, /alert) run between the steps of monitor_alerts.     *)
(***************************************************************************)
EXTENDS Integers, Sequences, FiniteSets, TLC

\* ------------------------------------------------------------------ bounds
NumAlerts == 3          \* rows in the alerts table at start
NumUsers == 2           \* distinct user_id values
CountCap == 2           \* the history counters saturate here
MaxRows == 4            \* ids the table ever hands out
MaxIntake == 1          \* intake handlers waiting for their page at a time
MaxTextLen == 7         \* characters of a price text drawn freely
MaxDigits == 5          \* digits of the price a page without markup shows

\* --------------------------------------------------------- program constants
RATE_LIMIT_MS == 400            \* ms between requests
POLL_INTERVAL_SECONDS == 900    \* seconds between sweeps

\* SQL NULL / Python None of a REAL column (prices are never negative here)
NULL == -1

Modes == {"PERSISTENT", "ONE_SHOT"}
Ids == 1..NumAlerts
AllIds == 1..MaxRows
Users == 1..NumUsers
\* thresholds a user types when editing: a lower one and a negative one
NewThresholds == {160, -5}
\* Prices a product page can show, and the threshold the alerts start with
\* (the values of the specification's examples).
Prices == {150, 180, 250}
Threshold == 200
\* Time a fetch takes: answered at once, or after at least the rate limit.
FetchMs == {0, RATE_LIMIT_MS}

VARIABLES
    mode,        \* which program runs
    db,          \* the alerts table: id -> row
    pc,          \* where monitor_alerts stands
    snapshot,    \* rows read at the start of the sweep
    idx,         \* position of the loop in snapshot
    fetched,     \* ids whose fetch was started in this sweep
    aborted,     \* the sweep was left through the outer except
    hadFault,    \* a slot of this sweep ended in an error that was caught
    sinceFetch,  \* ms since the last fetch started, saturating at RATE_LIMIT_MS
    ev,          \* what the last finished slot did
    track,       \* whether the history below and the requests are recorded
    sent,        \* per id: notifications delivered (saturating)
    qual,        \* per id: reads that the rule of the specification lets fire
    minSent,     \* per id: lowest price notified so far, or NULL
    uev,         \* the last user request since monitor_alerts last moved
    late,        \* per id: fetches started while the row was inactive or gone
    stale,       \* per id: evaluations against a threshold edited since
    pages,       \* the prices the shops' pages show during the run
    flaky,       \* whether the database and Telegram may fail during the run
    intake,      \* the intake handlers waiting for the page of their link,
                 \* in the order they began to wait
    seq,         \* the last id AUTOINCREMENT handed out
    gets,        \* the HTTP requests in flight
    timed,       \* whether the run is timed
    sweepClock,  \* in a timed run: ms since the last snapshot read
    probe        \* a call of one of the helper functions: input and result

vars == <<mode, db, pc, snapshot, idx, fetched, aborted, hadFault, sinceFetch, ev,
          track, sent, qual, minSent, uev, late, stale,
          pages, flaky, intake, seq, gets, timed, sweepClock, probe>>

\* ---------------------------------------------------------------- helpers
\* the outcomes of a call to the database or to Telegram: it returns, or, in
\* a run where they may fail, it raises
Up == IF flaky THEN BOOLEAN ELSE {TRUE}
Sat(ms) == IF ms > RATE_LIMIT_MS THEN RATE_LIMIT_MS ELSE ms
Bump(n) == IF n >= CountCap THEN CountCap ELSE n + 1
\* a response has come back: its request is no longer in flight
Returned_open(n) == n
Returned(n) == n - 1
\* the time a step takes passes on the clock of the sweep
Tick(ms) == sweepClock' = IF timed THEN sweepClock + ms ELSE sweepClock
\* await asyncio.sleep(POLL_INTERVAL_SECONDS), elapsed ms after the snapshot
poll_sleep_ms_remainder(elapsed) ==
    IF elapsed < POLL_INTERVAL_SECONDS * 1000
    THEN POLL_INTERVAL_SECONDS * 1000 - elapsed ELSE 0
poll_sleep_ms(elapsed) == POLL_INTERVAL_SECONDS * 1000
Min2(a, b) == IF a = NULL THEN b ELSE IF b < a THEN b ELSE a

RECURSIVE InOrder(_)
\* the ids of a set as the table returns them (rowid order)
InOrder(S) ==
    IF S = {} THEN <<>>
    ELSE LET m == CHOOSE x \in S : \A y \in S : x <= y
         IN <<m>> \o InOrder(S \ {m})

RowOf(d, i) == [id |-> i, user_id |-> d[i].user_id, link |-> d[i].link,
                threshold |-> d[i].threshold]
RowsOf(d, S) == LET o == InOrder(S) IN [k \in 1..Len(o) |-> RowOf(d, o[k])]

\* ------------------------------------------------------------- repository
\* INSERT INTO alerts (...): last_notified_price stays NULL, active defaults 1
insert_alert(user_id, link, price, threshold, created_at) ==
    [user_id |-> user_id, link |-> link, threshold |-> threshold,
     price |-> price, last_notified_price |-> NULL, active |-> TRUE,
     created_at |-> created_at]

get_all_active_alerts_inactive(d) == RowsOf(d, DOMAIN d)
\* SELECT * FROM alerts WHERE active = 1
get_all_active_alerts(d) == RowsOf(d, {i \in DOMAIN d : d[i].active})

select_alerts_cached(d) ==
    LET rows == RowsOf(d, DOMAIN d)
    IN [k \in DOMAIN rows |-> [rows[k] EXCEPT !.threshold = Threshold]]
\* bot.py: SELECT id, user_id, link, shop, product, threshold FROM alerts
select_alerts(d) == RowsOf(d, DOMAIN d)

update_alert_price_all(d, id, price) ==
    [i \in DOMAIN d |-> [d[i] EXCEPT !.price = price]]
\* UPDATE alerts SET price = ? WHERE id = ?
update_alert_price(d, id, price) ==
    IF id \in DOMAIN d THEN [d EXCEPT ![id].price = price] ELSE d

mark_alert_notified_threshold(d, id, price) ==
    IF id \in DOMAIN d
    THEN [d EXCEPT ![id].last_notified_price = d[id].threshold] ELSE d
mark_alert_notified_unset(d, id, price) == d
\* UPDATE alerts SET last_notified_price = ? WHERE id = ?
mark_alert_notified(d, id, price) ==
    IF id \in DOMAIN d THEN [d EXCEPT ![id].last_notified_price = price] ELSE d

delete_alert_kept(d, id) == d
\* bot.py: DELETE FROM alerts WHERE id = ?
delete_alert(d, id) == [i \in DOMAIN d \ {id} |-> d[i]]

\* WHERE id = ? AND user_id = ?
Owned(d, id, user_id) == id \in DOMAIN d /\ d[id].user_id = user_id

\* main.py: UPDATE alerts SET active = 0 WHERE id = ? AND user_id = ?
deactivate_alert_removes(d, user_id, id) ==
    IF Owned(d, id, user_id) THEN [i \in DOMAIN d \ {id} |-> d[i]] ELSE d
deactivate_alert_any(d, user_id, id) ==
    IF id \in DOMAIN d THEN [d EXCEPT ![id].active = FALSE] ELSE d
deactivate_alert(d, user_id, id) ==
    IF Owned(d, id, user_id) THEN [d EXCEPT ![id].active = FALSE] ELSE d

\* cur.rowcount of that UPDATE: the rows its WHERE matched
deactivate_rowcount(d, user_id, id) == IF Owned(d, id, user_id) THEN 1 ELSE 0

get_user_alerts_inactive(d, user_id) ==
    {i \in DOMAIN d : d[i].user_id = user_id}
\* main.py: SELECT ... WHERE user_id = ? AND active = 1 ORDER BY id DESC
\* (the ids of the listing)
get_user_alerts(d, user_id) ==
    {i \in DOMAIN d : d[i].user_id = user_id /\ d[i].active}

\* bot.py cb_delete_alert: DELETE FROM alerts WHERE id = ? AND user_id = ?
delete_user_alert(d, user_id, id) ==
    IF Owned(d, id, user_id) THEN [i \in DOMAIN d \ {id} |-> d[i]] ELSE d

\* bot.py cb_delete_all: DELETE FROM alerts WHERE user_id = ?
delete_all_alerts_everyone(d, user_id) == [i \in {} |-> d[i]]
delete_all_alerts(d, user_id) ==
    [i \in {j \in DOMAIN d : d[j].user_id # user_id} |-> d[i]]

\* bot.py process_new_threshold:
\* UPDATE alerts SET threshold = ? WHERE id = ? AND user_id = ?
update_threshold(d, user_id, id, threshold) ==
    IF Owned(d, id, user_id) THEN [d EXCEPT ![id].threshold = threshold] ELSE d

\* the handlers still waiting once the k-th has its page
Drop(q, k) == [j \in 1..(Len(q) - 1) |-> IF j < k THEN q[j] ELSE q[j + 1]]

\* the table with the row AUTOINCREMENT numbered id added
Stored(d, id, row) ==
    [i \in DOMAIN d \cup {id} |-> IF i = id THEN row ELSE d[i]]

\* the row is in the table and a sweep would read it
Listed(d, id) == id \in DOMAIN d /\ d[id].active

\* ---------------------------------------------------------------- notify
\* the condition under which monitor_alerts sends: price known and
\* price <= threshold (both programs)
price_reached(price, threshold) == price # NULL /\ price <= threshold

\* ------------------------------------------------------------------- Init
OwnerOf(i) == ((i - 1) % NumUsers) + 1
NoEvent == [id |-> 0, outcome |-> "none", price |-> NULL, threshold |-> NULL,
            tried |-> FALSE, delivered |-> FALSE, healthy |-> TRUE]

NoRequest == [op |-> "none", user |-> 0, id |-> 0, ret |-> FALSE]

\* no helper function is being followed
NoProbe == [fn |-> "none", arg |-> NULL, out |-> NULL, done |-> TRUE]

\* the table as the intake left it: every row with the price parsed at its
\* creation, or none
InitDb(S) ==
    \E p0 \in [S -> {NULL, 250}] :
       db = [i \in S |-> insert_alert(OwnerOf(i), i, p0[i], Threshold, i)]

InitScheduler ==
    /\ mode \in Modes
    /\ pc = "poll"
    /\ snapshot = <<>>
    /\ idx = 1
    /\ fetched = <<>>
    /\ aborted = FALSE
    /\ hadFault = FALSE
    /\ sinceFetch = 0
    /\ ev = NoEvent
    /\ sent = [i \in Ids |-> 0]
    /\ qual = [i \in Ids |-> 0]
    /\ minSent = [i \in Ids |-> NULL]
    /\ uev = NoRequest
    /\ late = [i \in AllIds |-> 0]
    /\ stale = [i \in AllIds |-> 0]
    /\ intake = <<>>
    /\ gets = 0
    /\ sweepClock = 0

\* NumAlerts alerts, swept together
Init ==
    /\ InitDb(Ids) /\ InitScheduler /\ track = FALSE /\ seq = NumAlerts
    /\ pages = Prices /\ flaky = TRUE /\ timed = FALSE /\ probe = NoProbe

\* one alert, followed sweep after sweep with its history recorded
InitSingle ==
    /\ InitDb({1}) /\ InitScheduler /\ track = TRUE /\ seq = 1
    /\ pages = Prices /\ flaky = TRUE /\ timed = FALSE /\ probe = NoProbe


\* ------------------------------------------------------- history of a slot
\* A read lets the rule of the specification fire when the price is known,
\* at or below the threshold and below every price notified before; it is
\* counted when the read was stored and the send of the slot works.
Qualifies(id, price, threshold) ==
    /\ price # NULL
    /\ price <= threshold
    /\ (minSent[id] = NULL \/ price < minSent[id])

History(id, price, threshold, delivered, sendUp) ==
    IF ~track THEN UNCHANGED <<sent, qual, minSent>> ELSE
    /\ sent' = IF delivered THEN [sent EXCEPT ![id] = Bump(@)] ELSE sent
    /\ minSent' = IF delivered THEN [minSent EXCEPT ![id] = Min2(@, price)]
                  ELSE minSent
    /\ qual' = IF sendUp /\ Qualifies(id, price, threshold)
               THEN [qual EXCEPT ![id] = Bump(@)] ELSE qual

NoHistory == UNCHANGED <<sent, qual, minSent>>

Slot(id, outcome, price, threshold, tried, delivered, healthy) ==
    [id |-> id, outcome |-> outcome, price |-> price, threshold |-> threshold,
     tried |-> tried, delivered |-> delivered, healthy |-> healthy]

NextRow_retry ==
    IF ev.tried /\ ~ev.delivered
    THEN idx' = idx /\ pc' = "fetch"
    ELSE /\ idx' = idx + 1
         /\ pc' = IF idx < Len(snapshot) THEN "fetch" ELSE "poll_sleep"
\* the loop moves to the next row of the snapshot, or leaves the for loop
NextRow ==
    /\ idx' = idx + 1
    /\ pc' = IF idx < Len(snapshot) THEN "fetch" ELSE "poll_sleep"

\* ------------------------------------------------ src/main.py monitor_alerts
\* alerts = await get_all_active_alerts(), inside the try of the while loop
MainReadSnapshot ==
    /\ mode = "PERSISTENT" /\ pc = "poll"
    /\ \E readOk \in Up :
          IF readOk
          THEN /\ snapshot' = get_all_active_alerts(db)
               /\ pc' = IF snapshot' = <<>> THEN "poll_sleep" ELSE "fetch"
               /\ aborted' = FALSE
          ELSE \* except Exception: logged, then the poll sleep
               /\ snapshot' = <<>>
               /\ pc' = "poll_sleep"
               /\ aborted' = TRUE
    /\ idx' = 1 /\ fetched' = <<>> /\ ev' = NoEvent /\ hadFault' = FALSE
    /\ sweepClock' = 0
    /\ uev' = NoRequest
    /\ UNCHANGED gets
    /\ UNCHANGED <<mode, track, pages, flaky, intake, seq, timed, probe, late, stale, db, sinceFetch, sent, qual, minSent>>

\* parser = select_parser_by_url(link); the GET of fetch_html goes out
MainStartFetch ==
    /\ mode = "PERSISTENT" /\ pc = "fetch"
    /\ pc' = "fetching"
    /\ fetched' = Append(fetched, snapshot[idx].id)
    /\ sinceFetch' = 0
    /\ UNCHANGED sweepClock
    /\ ev' = NoEvent
    /\ uev' = NoRequest
    /\ gets' = gets + 1
    /\ late' = IF Listed(db, snapshot[idx].id) THEN late
               ELSE [late EXCEPT ![snapshot[idx].id] = Bump(@)]
    /\ UNCHANGED <<mode, track, pages, flaky, intake, seq, timed, probe, stale, db, snapshot, idx, aborted, hadFault, sent, qual,
                   minSent>>

\* a 404 that ends the sweep
MainNotFound_abort ==
    /\ mode = "PERSISTENT" /\ pc = "fetching"
    /\ \E d \in FetchMs : sinceFetch' = Sat(sinceFetch + d) /\ Tick(d)
    /\ ev' = Slot(snapshot[idx].id, "not_found", NULL, snapshot[idx].threshold,
                  FALSE, FALSE, TRUE)
    /\ pc' = "poll_sleep"
    /\ hadFault' = TRUE
    /\ NoHistory
    /\ uev' = NoRequest
    /\ gets' = Returned(gets)
    /\ UNCHANGED <<mode, track, pages, flaky, intake, seq, timed, probe, late, stale, db, snapshot, idx, fetched, aborted>>

\* a 404 that stores a null price
MainNotFound_nulls ==
    /\ mode = "PERSISTENT" /\ pc = "fetching"
    /\ \E d \in FetchMs : sinceFetch' = Sat(sinceFetch + d) /\ Tick(d)
    /\ ev' = Slot(snapshot[idx].id, "not_found", NULL, snapshot[idx].threshold,
                  FALSE, FALSE, TRUE)
    /\ db' = update_alert_price(db, snapshot[idx].id, NULL)
    /\ pc' = "rate_sleep"
    /\ hadFault' = TRUE
    /\ NoHistory
    /\ uev' = NoRequest
    /\ gets' = Returned(gets)
    /\ UNCHANGED <<mode, track, pages, flaky, intake, seq, timed, probe, late, stale, snapshot, idx, fetched, aborted>>

\* status == 404: logged, rate-limit sleep, continue
MainNotFound ==
    /\ mode = "PERSISTENT" /\ pc = "fetching"
    /\ \E d \in FetchMs : sinceFetch' = Sat(sinceFetch + d) /\ Tick(d)
    /\ ev' = Slot(snapshot[idx].id, "not_found", NULL, snapshot[idx].threshold,
                  FALSE, FALSE, TRUE)
    /\ pc' = "rate_sleep"
    /\ hadFault' = TRUE
    /\ NoHistory
    /\ uev' = NoRequest
    /\ gets' = Returned(gets)
    /\ UNCHANGED <<mode, track, pages, flaky, intake, seq, timed, probe, late, stale, db, snapshot, idx, fetched, aborted>>

\* a failed fetch that stores a null price
MainNoHtml_nulls ==
    /\ mode = "PERSISTENT" /\ pc = "fetching"
    /\ \E d \in FetchMs : sinceFetch' = Sat(sinceFetch + d) /\ Tick(d)
    /\ ev' = Slot(snapshot[idx].id, "transient", NULL, snapshot[idx].threshold,
                  FALSE, FALSE, TRUE)
    /\ db' = update_alert_price(db, snapshot[idx].id, NULL)
    /\ pc' = "rate_sleep"
    /\ hadFault' = TRUE
    /\ NoHistory
    /\ uev' = NoRequest
    /\ gets' = Returned(gets)
    /\ UNCHANGED <<mode, track, pages, flaky, intake, seq, timed, probe, late, stale, snapshot, idx, fetched, aborted>>

\* html is None (any other status, timeout, network error): the same
MainNoHtml ==
    /\ mode = "PERSISTENT" /\ pc = "fetching"
    /\ \E d \in FetchMs : sinceFetch' = Sat(sinceFetch + d) /\ Tick(d)
    /\ ev' = Slot(snapshot[idx].id, "transient", NULL, snapshot[idx].threshold,
                  FALSE, FALSE, TRUE)
    /\ pc' = "rate_sleep"
    /\ hadFault' = TRUE
    /\ NoHistory
    /\ uev' = NoRequest
    /\ gets' = Returned(gets)
    /\ UNCHANGED <<mode, track, pages, flaky, intake, seq, timed, probe, late, stale, db, snapshot, idx, fetched, aborted>>

\* status 200: parse, update_alert_price, compare, send, mark_alert_notified
MainParsed ==
    /\ mode = "PERSISTENT" /\ pc = "fetching"
    /\ \E d \in FetchMs : sinceFetch' = Sat(sinceFetch + d) /\ Tick(d)
    /\ \E price \in pages \cup {NULL}, updOk \in Up, sendOk \in Up,
          markOk \in Up :
          LET r == snapshot[idx]
              healthy == updOk /\ sendOk /\ markOk
              fire == price_reached(price, r.threshold)
              db1 == update_alert_price(db, r.id, price)
          IN IF ~updOk
             THEN \* update_alert_price raises: the outer except ends the sweep
                  /\ db' = db
                  /\ ev' = Slot(r.id, "parsed", price, r.threshold, FALSE, FALSE,
                                healthy)
                  /\ pc' = "poll_sleep"
                  /\ aborted' = TRUE
                  /\ hadFault' = hadFault
                  /\ History(r.id, price, r.threshold, FALSE, FALSE)
             ELSE /\ db' = IF fire /\ sendOk /\ markOk
                           THEN mark_alert_notified(db1, r.id, price)
                           ELSE db1
                  /\ ev' = Slot(r.id, "parsed", price, r.threshold, fire,
                                fire /\ sendOk, healthy)
                  /\ pc' = "rate_sleep"
                  /\ aborted' = aborted
                  \* except Exception around the send and the mark
                  /\ hadFault' = (hadFault \/ (fire /\ ~(sendOk /\ markOk)))
                  /\ History(r.id, price, r.threshold, fire /\ sendOk, sendOk)
    /\ uev' = NoRequest
    /\ gets' = Returned(gets)
    /\ UNCHANGED <<mode, track, pages, flaky, intake, seq, timed, probe, late, stale, snapshot, idx, fetched>>

\* await asyncio.sleep(RATE_LIMIT_MS / 1000), then the next row
MainRateSleep ==
    /\ mode = "PERSISTENT" /\ pc = "rate_sleep"
    /\ sinceFetch' = Sat(sinceFetch + RATE_LIMIT_MS)
    /\ Tick(RATE_LIMIT_MS)
    /\ NextRow
    /\ uev' = NoRequest
    /\ UNCHANGED gets
    /\ UNCHANGED <<mode, track, pages, flaky, intake, seq, timed, probe, late, stale, db, snapshot, fetched, aborted, hadFault, ev, sent,
                   qual, minSent>>

\* await asyncio.sleep(POLL_INTERVAL_SECONDS), then the while loop again
MainPollSleep ==
    /\ mode = "PERSISTENT" /\ pc = "poll_sleep"
    /\ sinceFetch' = Sat(sinceFetch + poll_sleep_ms(sweepClock))
    /\ Tick(poll_sleep_ms(sweepClock))
    /\ pc' = "poll"
    /\ snapshot' = <<>> /\ idx' = 1 /\ fetched' = <<>> /\ aborted' = FALSE
    /\ hadFault' = FALSE /\ ev' = NoEvent
    /\ uev' = NoRequest
    /\ UNCHANGED gets
    /\ UNCHANGED <<mode, track, pages, flaky, intake, seq, timed, probe, late, stale, db, sent, qual, minSent>>

\* ------------------------------------------------- src/bot.py monitor_alerts
\* the SELECT at the top of the while loop, outside every try
BotReadSnapshot ==
    /\ mode = "ONE_SHOT" /\ pc = "poll"
    /\ \E readOk \in Up :
          IF readOk
          THEN /\ snapshot' = select_alerts(db)
               /\ pc' = IF snapshot' = <<>> THEN "poll_sleep" ELSE "fetch"
          ELSE \* the exception leaves monitor_alerts: the task is over
               /\ snapshot' = <<>>
               /\ pc' = "terminated"
    /\ idx' = 1 /\ fetched' = <<>> /\ ev' = NoEvent /\ aborted' = FALSE
    /\ sweepClock' = 0
    /\ hadFault' = FALSE
    /\ uev' = NoRequest
    /\ UNCHANGED gets
    /\ UNCHANGED <<mode, track, pages, flaky, intake, seq, timed, probe, late, stale, db, sinceFetch, sent, qual, minSent>>

\* fetch_product_info(link) sends its GET
BotStartFetch ==
    /\ mode = "ONE_SHOT" /\ pc = "fetch"
    /\ pc' = "fetching"
    /\ fetched' = Append(fetched, snapshot[idx].id)
    /\ sinceFetch' = 0
    /\ UNCHANGED sweepClock
    /\ ev' = NoEvent
    /\ uev' = NoRequest
    /\ gets' = gets + 1
    /\ late' = IF Listed(db, snapshot[idx].id) THEN late
               ELSE [late EXCEPT ![snapshot[idx].id] = Bump(@)]
    /\ UNCHANGED <<mode, track, pages, flaky, intake, seq, timed, probe, stale, db, snapshot, idx, aborted, hadFault, sent, qual,
                   minSent>>

\* fetch_product_info raises (404, raise_for_status, network, float() of a
\* malformed price): except Exception logs it, then the rate-limit sleep
BotFetchRaised ==
    /\ mode = "ONE_SHOT" /\ pc = "fetching"
    /\ \E d \in FetchMs : sinceFetch' = Sat(sinceFetch + d) /\ Tick(d)
    /\ \E why \in {"not_found", "transient", "parse_error"} :
          ev' = Slot(snapshot[idx].id, why, NULL, snapshot[idx].threshold,
                     FALSE, FALSE, TRUE)
    /\ pc' = "rate_sleep"
    /\ hadFault' = TRUE
    /\ NoHistory
    /\ uev' = NoRequest
    /\ gets' = Returned(gets)
    /\ UNCHANGED <<mode, track, pages, flaky, intake, seq, timed, probe, late, stale, db, snapshot, idx, fetched, aborted>>

BotParsed_consumes ==
    /\ mode = "ONE_SHOT" /\ pc = "fetching"
    /\ \E d \in FetchMs : sinceFetch' = Sat(sinceFetch + d) /\ Tick(d)
    /\ \E price \in pages \cup {NULL}, sendOk \in Up, delOk \in Up :
          LET r == snapshot[idx]
              healthy == sendOk /\ delOk
              fire == price_reached(price, r.threshold)
          IN /\ db' = IF fire /\ delOk THEN delete_alert(db, r.id)
                      ELSE db
             /\ ev' = Slot(r.id, "parsed", price, r.threshold, fire,
                           fire /\ sendOk, healthy)
             /\ History(r.id, price, r.threshold, fire /\ sendOk, sendOk)
             /\ hadFault' = (hadFault \/ (fire /\ ~(sendOk /\ delOk)))
             /\ IF price = NULL
                THEN \* continue: the sleep at the end of the body is skipped
                     NextRow
                ELSE pc' = "rate_sleep" /\ idx' = idx
             \* price <= threshold is evaluated with the snapshot's threshold
             /\ stale' = IF price # NULL /\ r.id \in DOMAIN db
                            /\ db[r.id].threshold # r.threshold
                         THEN [stale EXCEPT ![r.id] = Bump(@)] ELSE stale
    /\ uev' = NoRequest
    /\ gets' = Returned(gets)
    /\ UNCHANGED <<mode, track, pages, flaky, intake, seq, timed, probe, late, snapshot, fetched, aborted>>
\* fetch_product_info returns: compare, send, DELETE
BotParsed ==
    /\ mode = "ONE_SHOT" /\ pc = "fetching"
    /\ \E d \in FetchMs : sinceFetch' = Sat(sinceFetch + d) /\ Tick(d)
    /\ \E price \in pages \cup {NULL}, sendOk \in Up, delOk \in Up :
          LET r == snapshot[idx]
              healthy == sendOk /\ delOk
              fire == price_reached(price, r.threshold)
          IN /\ db' = IF fire /\ sendOk /\ delOk THEN delete_alert(db, r.id)
                      ELSE db
             /\ ev' = Slot(r.id, "parsed", price, r.threshold, fire,
                           fire /\ sendOk, healthy)
             /\ History(r.id, price, r.threshold, fire /\ sendOk, sendOk)
             /\ hadFault' = (hadFault \/ (fire /\ ~(sendOk /\ delOk)))
             /\ IF price = NULL
                THEN \* continue: the sleep at the end of the body is skipped
                     NextRow
                ELSE pc' = "rate_sleep" /\ idx' = idx
             \* price <= threshold is evaluated with the snapshot's threshold
             /\ stale' = IF price # NULL /\ r.id \in DOMAIN db
                            /\ db[r.id].threshold # r.threshold
                         THEN [stale EXCEPT ![r.id] = Bump(@)] ELSE stale
    /\ uev' = NoRequest
    /\ gets' = Returned(gets)
    /\ UNCHANGED <<mode, track, pages, flaky, intake, seq, timed, probe, late, snapshot, fetched, aborted>>

BotRateSleep ==
    /\ mode = "ONE_SHOT" /\ pc = "rate_sleep"
    /\ sinceFetch' = Sat(sinceFetch + RATE_LIMIT_MS)
    /\ Tick(RATE_LIMIT_MS)
    /\ NextRow
    /\ uev' = NoRequest
    /\ UNCHANGED gets
    /\ UNCHANGED <<mode, track, pages, flaky, intake, seq, timed, probe, late, stale, db, snapshot, fetched, aborted, hadFault, ev, sent,
                   qual, minSent>>

BotPollSleep ==
    /\ mode = "ONE_SHOT" /\ pc = "poll_sleep"
    /\ sinceFetch' = Sat(sinceFetch + poll_sleep_ms(sweepClock))
    /\ Tick(poll_sleep_ms(sweepClock))
    /\ pc' = "poll"
    /\ snapshot' = <<>> /\ idx' = 1 /\ fetched' = <<>> /\ aborted' = FALSE
    /\ hadFault' = FALSE /\ ev' = NoEvent
    /\ uev' = NoRequest
    /\ UNCHANGED gets
    /\ UNCHANGED <<mode, track, pages, flaky, intake, seq, timed, probe, late, stale, db, sent, qual, minSent>>

\* ------------------------------------------------- the users' requests
\* They run between any two awaits of monitor_alerts and leave it where it is.
Request(op, user_id, id, ret) ==
    IF track THEN [op |-> op, user |-> user_id, id |-> id, ret |-> ret]
    ELSE NoRequest

UserFrame ==
    UNCHANGED <<mode, pc, snapshot, idx, fetched, aborted, hadFault, sinceFetch,
                ev, track, sent, qual, minSent, late, pages, flaky,
                intake, seq, gets, timed, sweepClock, probe>>

\* main.py cb_delete_alert: "del:<id>" pressed by user_id
MainDeleteAlert ==
    /\ mode = "PERSISTENT"
    /\ \E user_id \in Users, id \in AllIds :
          /\ db' = deactivate_alert(db, user_id, id)
          /\ uev' = Request("delete", user_id, id,
                             deactivate_rowcount(db, user_id, id) > 0)
    /\ UNCHANGED stale
    /\ UserFrame

\* bot.py cb_delete_alert: answers "deleted" whatever the DELETE matched
BotDeleteAlert ==
    /\ mode = "ONE_SHOT"
    /\ \E user_id \in Users, id \in AllIds :
          /\ db' = delete_user_alert(db, user_id, id)
          /\ uev' = Request("delete", user_id, id, TRUE)
    /\ UNCHANGED stale
    /\ UserFrame

\* bot.py cb_delete_all
BotDeleteAll ==
    /\ mode = "ONE_SHOT"
    /\ \E user_id \in Users :
          /\ db' = delete_all_alerts(db, user_id)
          /\ uev' = Request("delete_all", user_id, 0, TRUE)
    /\ UNCHANGED stale
    /\ UserFrame

\* bot.py cb_edit_alert keeps the id of the pressed button in the FSM state;
\* process_new_threshold parses the number typed next and writes it
BotNewThreshold ==
    /\ mode = "ONE_SHOT"
    /\ \E user_id \in Users, id \in AllIds, new_threshold \in NewThresholds :
          /\ db' = update_threshold(db, user_id, id, new_threshold)
          /\ uev' = Request("edit", user_id, id, TRUE)
          /\ stale' = IF Owned(db, id, user_id)
                      THEN [stale EXCEPT ![id] = 0] ELSE stale
    /\ UserFrame

\* ------------------------------------------------------ the intake
\* A handler that has read its threshold awaits the page of the link with
\* a client of its own, then stores the alert.
IntakeFrame ==
    UNCHANGED <<mode, pc, snapshot, idx, fetched, aborted, hadFault, sinceFetch,
                ev, track, sent, qual, minSent, late, stale, pages, flaky, uev,
                timed, sweepClock, probe>>

Await(user_id, threshold, kind) ==
    /\ Len(intake) < MaxIntake
    /\ seq + Len(intake) < MaxRows
    /\ intake' = Append(intake, [user |-> user_id, threshold |-> threshold,
                                 kind |-> kind])
    /\ gets' = gets + 1
    /\ UNCHANGED <<db, seq>>

Save(r, price) ==
    /\ db' = Stored(db, seq + 1,
                    insert_alert(r.user, seq + 1, price, r.threshold, seq + 1))
    /\ seq' = seq + 1

\* main.py process_threshold: float(txt), a threshold below zero is refused
MainProcessThreshold ==
    /\ mode = "PERSISTENT"
    /\ \E user_id \in Users, threshold \in NewThresholds :
          /\ ~(threshold < 0)
          /\ Await(user_id, threshold, "search")
    /\ IntakeFrame

\* main.py cmd_alert_quick: the last number of the message, sign included
MainAlertQuick ==
    /\ mode = "PERSISTENT"
    /\ \E user_id \in Users, threshold \in NewThresholds :
          Await(user_id, threshold, "quick")
    /\ IntakeFrame

\* status == 404 or html is None: /search gives up, /alert stores the
\* alert without a price
MainIntakeNoPage ==
    /\ mode = "PERSISTENT"
    /\ \E k \in DOMAIN intake :
          /\ intake' = Drop(intake, k)
          /\ gets' = Returned(gets)
          /\ IF intake[k].kind = "quick" THEN Save(intake[k], NULL)
             ELSE UNCHANGED <<db, seq>>
    /\ IntakeFrame

\* product, price = await parser(html), then insert_alert
MainIntakeParsed ==
    /\ mode = "PERSISTENT"
    /\ \E k \in DOMAIN intake, price \in pages \cup {NULL} :
          /\ intake' = Drop(intake, k)
          /\ gets' = Returned(gets)
          /\ Save(intake[k], price)
    /\ IntakeFrame

\* bot.py process_threshold: float(message.text), any sign
BotProcessThreshold ==
    /\ mode = "ONE_SHOT"
    /\ \E user_id \in Users, threshold \in NewThresholds :
          Await(user_id, threshold, "search")
    /\ IntakeFrame

\* fetch_product_info raised: nothing is stored
BotIntakeRaised ==
    /\ mode = "ONE_SHOT"
    /\ \E k \in DOMAIN intake :
          /\ intake' = Drop(intake, k)
          /\ gets' = Returned(gets)
          /\ UNCHANGED <<db, seq>>
    /\ IntakeFrame

\* fetch_product_info returned, then INSERT INTO alerts
BotIntakeParsed ==
    /\ mode = "ONE_SHOT"
    /\ \E k \in DOMAIN intake, price \in pages \cup {NULL} :
          /\ intake' = Drop(intake, k)
          /\ gets' = Returned(gets)
          /\ Save(intake[k], price)
    /\ IntakeFrame

\* ------------------------------------------------- the helper functions
\* Each is followed on its own: the table is empty and monitor_alerts does
\* not run; probe holds the input, then the result.
HelperFrame ==
    UNCHANGED <<mode, db, pc, snapshot, idx, fetched, aborted, hadFault,
                sinceFetch, ev, track, sent, qual, minSent, uev, late, stale,
                pages, flaky, intake, seq, gets, timed, sweepClock>>

InitHelper(fn, Args) ==
    /\ InitDb({}) /\ InitScheduler /\ track = FALSE /\ seq = 0
    /\ pages = {} /\ flaky = FALSE /\ timed = FALSE
    /\ \E a \in Args : probe = [fn |-> fn, arg |-> a, out |-> NULL,
                                 done |-> FALSE]

Returns(fn, out) ==
    /\ probe.fn = fn /\ ~probe.done
    /\ probe' = [probe EXCEPT !.out = out, !.done = TRUE]
    /\ HelperFrame

\* ---- the fetch
\* what the GET of a link ends in: a response with a status, or an exception
\* of httpx (timeout, connection error)
Statuses == (200..206) \cup (400..431) \cup (500..511)
GetOutcomes ==
    [kind : {"response"}, status : Statuses]
        \cup [kind : {"timeout", "network"}, status : {0}]

\* main.py fetch_html: (status, text) for 200, (status, None) for any other
\* status, (0, None) for an exception
fetch_html(o) ==
    IF o.kind = "response"
    THEN [raised |-> FALSE, status |-> o.status,
          html |-> IF o.status = 200 THEN "text" ELSE "None"]
    ELSE [raised |-> FALSE, status |-> 0, html |-> "None"]

\* how the callers of fetch_html read its pair: status == 404, then
\* html is None, then the page
ResultOf(r) ==
    IF r.raised THEN "raised"
    ELSE IF r.status = 404 THEN "NotFound"
    ELSE IF r.html = "None" THEN "TransientFailure"
    ELSE "Success"

\* bot.py fetch_product_info up to the soup: client.get raises on a timeout
\* or a connection error, 404 raises ValueError, raise_for_status raises on
\* 4xx and 5xx
fetch_product_info_get(o) ==
    IF o.kind # "response" THEN [raised |-> TRUE, status |-> 0, html |-> "None"]
    ELSE IF o.status = 404 \/ o.status >= 400
         THEN [raised |-> TRUE, status |-> o.status, html |-> "None"]
         ELSE [raised |-> FALSE, status |-> o.status, html |-> "text"]

MainFetchHtml ==
    /\ mode = "PERSISTENT"
    /\ Returns("fetch", ResultOf(fetch_html(probe.arg)))

BotFetchProductInfo ==
    /\ mode = "ONE_SHOT"
    /\ Returns("fetch", ResultOf(fetch_product_info_get(probe.arg)))

InitFetch == InitHelper("fetch", GetOutcomes)
NextFetch == MainFetchHtml \/ BotFetchProductInfo
SpecFetch == InitFetch /\ [][NextFetch]_vars

\* ---- texts and numbers
\* A text is a sequence of characters; "nbsp" is U+00A0 and "rub" is the
\* rouble sign U+20BD. A float is kept as
\* the decimal numeral it was read from: sign, integer digits without
\* leading zeros, fraction digits without trailing zeros (the texts here are
\* far shorter than the 15 digits a float holds exactly).
Digit == <<"0", "1", "2", "3", "4", "5", "6", "7", "8", "9">>
IsDigit(c) == \E k \in DOMAIN Digit : Digit[k] = c
\* \s and \u00A0
IsSpace(c) == c \in {" ", "nbsp"}
None == [ok |-> FALSE, neg |-> FALSE, ip |-> <<>>, fp |-> <<>>]

Sub(t, a, b) == [k \in 1..(b - a + 1) |-> t[a + k - 1]]
\* the end of the longest run of digits of t that starts at a (a - 1: none)
RECURSIVE RunEnd(_, _)
RunEnd(t, a) ==
    IF a <= Len(t) /\ IsDigit(t[a]) THEN RunEnd(t, a + 1) ELSE a - 1
RECURSIVE DropZerosLeft(_)
DropZerosLeft(t) ==
    IF t # <<>> /\ t[1] = "0" THEN DropZerosLeft(Tail(t)) ELSE t
RECURSIVE DropZerosRight(_)
DropZerosRight(t) ==
    IF t # <<>> /\ t[Len(t)] = "0"
    THEN DropZerosRight(Sub(t, 1, Len(t) - 1)) ELSE t

\* float("[-]digits[.digits]")
Float(neg, ip, fp) ==
    [ok |-> TRUE, neg |-> neg, ip |-> DropZerosLeft(ip),
     fp |-> DropZerosRight(fp)]

\* main.py parse_price_text_to_float: re.sub(r'[\u00A0\s]', '', text),
\* replace(',', '.'), re.search(r'(-?\d+(\.\d+)?)'), float(m.group(1))
parse_price_text_to_float(text) ==
    IF text = <<>> THEN None
    ELSE LET bare == SelectSeq(text, LAMBDA ch : ~IsSpace(ch))
             txt == [k \in DOMAIN bare |->
                       IF bare[k] = "," THEN "." ELSE bare[k]]
             \* the leftmost place where the pattern matches
             at == {a \in DOMAIN txt :
                      \/ IsDigit(txt[a])
                      \/ /\ txt[a] = "-" /\ a < Len(txt)
                         /\ IsDigit(txt[a + 1])}
         IN IF at = {} THEN None
            ELSE LET a == CHOOSE x \in at : \A y \in at : x <= y
                     neg == txt[a] = "-"
                     d == IF neg THEN a + 1 ELSE a
                     b == RunEnd(txt, d)
                     c == IF b + 1 <= Len(txt) /\ txt[b + 1] = "."
                          THEN RunEnd(txt, b + 2) ELSE b
                 IN Float(neg, Sub(txt, d, b),
                          IF c > b + 1 THEN Sub(txt, b + 2, c) ELSE <<>>)

\* str(price) of Python, as the messages of both programs print a price:
\* positional for 1e-4 <= |x| < 1e16, else d[.ddd]e+XX
TwoDigits(n) == <<Digit[(n \div 10) + 1], Digit[(n % 10) + 1]>>
str(x) ==
    LET sign == IF x.neg THEN <<"-">> ELSE <<>>
        lead == Len(x.fp) - Len(DropZerosLeft(x.fp))
        exp == IF x.ip # <<>> THEN Len(x.ip) - 1 ELSE -(lead + 1)
        digits == IF x.ip # <<>> THEN DropZerosRight(x.ip \o x.fp)
                  ELSE DropZerosLeft(x.fp)
    IN IF x.ip = <<>> /\ x.fp = <<>> THEN sign \o <<"0", ".", "0">>
       ELSE IF exp >= -4 /\ exp < 16
       THEN sign \o (IF x.ip = <<>> THEN <<"0">> ELSE x.ip) \o <<".">>
                 \o (IF x.fp = <<>> THEN <<"0">> ELSE x.fp)
       ELSE sign \o <<digits[1]>>
                 \o (IF Len(digits) > 1 THEN <<".">> \o Tail(digits) ELSE <<>>)
                 \o <<"e", IF exp < 0 THEN "-" ELSE "+">>
                 \o TwoDigits(IF exp < 0 THEN -exp ELSE exp)

\* the price texts followed: the ones a page is expected to show, and every
\* text of up to MaxTextLen characters over a few characters
ShownTexts ==
    {<<"1", " ", "2", "3", "4", ",", "5", "6", " ", "rub">>,
     <<"1", "nbsp", "2", "3", "4", ".", "5", "6", " ", "rub">>,
     <<"1", "2", "3", "4", ".", "5", "6">>,
     <<"n", "/", "a">>,
     <<"2", "5", "9", ".", "9", "9", " ", "rub">>,
     <<"7", "7", ",", "9", "9", " ", "rub">>,
     <<"o", "t", " ", "-", "5", "%">>}
FreeChars == {"0", "1", ",", " ", "-"}
FreeTexts == UNION {[1..n -> FreeChars] : n \in 0..MaxTextLen}
PriceTexts == ShownTexts \cup FreeTexts

\* the price of a text, the text str() gives it, and the price of that text
ParsePriceText ==
    LET x == parse_price_text_to_float(probe.arg)
    IN mode = "PERSISTENT" /\
       Returns("price",
               [price |-> x,
                again |-> IF x.ok THEN parse_price_text_to_float(str(x))
                          ELSE None])

InitPrice == InitHelper("price", PriceTexts)
NextPrice == ParsePriceText
SpecPrice == InitPrice /\ [][NextPrice]_vars

\* ---- main.py parse_generic: the price
\* re.search(r'(\d{1,3}(?:[ \u00A0]\d{3})*(?:[.,]\d+)?)[\s\u00A0]*rub', text)
\* Each operator gives the last position of the match of the rest of the
\* pattern from position p on, 0 when it does not match there; alternatives
\* are tried in the order the regex engine tries them.
HasDigits(t, p, n) == p + n - 1 <= Len(t) /\ \A k \in p..(p + n - 1) : IsDigit(t[k])
\* [\s\u00A0]*rub
RECURSIVE AfterCurrency(_, _)
AfterCurrency(t, p) ==
    IF p > Len(t) THEN 0
    ELSE IF IsSpace(t[p]) THEN AfterCurrency(t, p + 1)
    ELSE IF t[p] = "rub" THEN p ELSE 0
\* (?:[.,]\d+)? and the rest
AfterFraction(t, p) ==
    LET with == IF p < Len(t) /\ t[p] \in {".", ","} /\ IsDigit(t[p + 1])
                THEN AfterCurrency(t, RunEnd(t, p + 1) + 1) ELSE 0
    IN IF with # 0 THEN with ELSE AfterCurrency(t, p)
\* (?:[ \u00A0]\d{3})* and the rest
RECURSIVE AfterGroups(_, _)
AfterGroups(t, p) ==
    LET more == IF p <= Len(t) /\ t[p] \in {" ", "nbsp"} /\ HasDigits(t, p + 1, 3)
                THEN AfterGroups(t, p + 4) ELSE 0
    IN IF more # 0 THEN more ELSE AfterFraction(t, p)
\* \d{1,3} and the rest: three digits first, then two, then one
RECURSIVE AfterHead(_, _, _)
AfterHead(t, a, n) ==
    IF n = 0 THEN 0
    ELSE LET e == IF HasDigits(t, a, n) THEN AfterGroups(t, a + n) ELSE 0
         IN IF e # 0 THEN e ELSE AfterHead(t, a, n - 1)
parse_generic_price(text) ==
    LET at == {a \in DOMAIN text : AfterHead(text, a, 3) # 0}
    IN IF at = {} THEN None
       ELSE LET a == CHOOSE x \in at : \A y \in at : x <= y
            IN parse_price_text_to_float(Sub(text, a, AfterHead(text, a, 3)))

\* the visible text of a page that shows one price (or none: no digits):
\* words, the digits written together or in groups of three, the rouble
\* sign with or without a space before it, words
RECURSIVE Grouped(_)
Grouped(d) ==
    IF Len(d) <= 3 THEN d
    ELSE Grouped(Sub(d, 1, Len(d) - 3)) \o <<" ">> \o Sub(d, Len(d) - 2, Len(d))
VisibleText(pg) ==
    pg.before
      \o (IF pg.digits = <<>> THEN <<"n", "e", "t">>
          ELSE (IF pg.grouped THEN Grouped(pg.digits) ELSE pg.digits)
                 \o (IF pg.gap THEN <<" ">> ELSE <<>>) \o <<"rub">>)
      \o pg.after
PriceDigits == UNION {[1..n -> {"1", "2", "5"}] : n \in 0..MaxDigits}
GenericPages ==
    [before : {<<>>, <<"C", "e", "n", "a", ":", " ">>},
     digits : PriceDigits, grouped : BOOLEAN, gap : BOOLEAN,
     after : {<<>>, <<" ", "z", "a", " ", "s", "h", "t", ".">>}]

ParseGeneric ==
    /\ mode = "PERSISTENT"
    /\ Returns("generic", parse_generic_price(VisibleText(probe.arg)))

InitGeneric == InitHelper("generic", GenericPages)
NextGeneric == ParseGeneric
SpecGeneric == InitGeneric /\ [][NextGeneric]_vars

\* ---- the parser of a URL
\* `sig in url` of Python: url has sig as a substring
Contains(url, sig) ==
    \E a \in 1..(Len(url) - Len(sig) + 1) : Sub(url, a, a + Len(sig) - 1) = sig
\* main.py DOMAIN_PARSERS, in the order the dict keeps its keys
DOMAIN_PARSERS ==
    <<[domain |-> <<"m", "a", "g", "n", "i", "t", ".", "r", "u">>, parser |-> "parse_magnit"],
      [domain |-> <<"l", "e", "n", "t", "a", ".", "c", "o", "m">>, parser |-> "parse_lenta"],
      [domain |-> <<"5", "k", "a", ".", "r", "u">>, parser |-> "parse_5ka"],
      [domain |-> <<"5", "k", "a">>, parser |-> "parse_5ka"],
      [domain |-> <<"5">>, parser |-> "parse_5ka"],
      [domain |-> <<"b", "r", "i", "s", "t", "o", "l", ".", "r", "u">>, parser |-> "parse_bristol"],
      [domain |-> <<"m", "y", "s", "p", "a", "r", ".", "r", "u">>, parser |-> "parse_spar"],
      [domain |-> <<"w", "w", "w", ".", "m", "y", "s", "p", "a", "r", ".", "r", "u">>, parser |-> "parse_spar"],
      [domain |-> <<"w", "i", "l", "d", "b", "e", "r", "r", "i", "e", "s", ".", "r", "u">>, parser |-> "parse_wildberries"],
      [domain |-> <<"w", "w", "w", ".", "w", "i", "l", "d", "b", "e", "r", "r", "i", "e", "s", ".", "r", "u">>, parser |-> "parse_wildberries"]>>
\* the parser of the first entry of table whose domain the url contains
FirstMatch(table, url, otherwise) ==
    LET at == {k \in DOMAIN table : Contains(url, table[k].domain)}
    IN IF at = {} THEN otherwise
       ELSE table[CHOOSE k \in at : \A j \in at : k <= j].parser
select_parser_by_url(url) ==
    FirstMatch(DOMAIN_PARSERS, url,
               IF Contains(url, <<"m", "a", "g", "n", "i", "t", ".", "r", "u">>) \/ Contains(url, <<"m", "a", "g", "n", "i", "t">>)
               THEN "parse_magnit" ELSE "parse_generic")
\* bot.py fetch_product_info: the if/elif chain that sets shop; each shop
\* is named here by the parser main.py has for it, "Unknown" has none
SHOPS ==
    <<[domain |-> <<"m", "a", "g", "n", "i", "t", ".", "r", "u">>, parser |-> "parse_magnit"],
      [domain |-> <<"l", "e", "n", "t", "a", ".", "c", "o", "m">>, parser |-> "parse_lenta"],
      [domain |-> <<"5", "k", "a", ".", "r", "u">>, parser |-> "parse_5ka"],
      [domain |-> <<"b", "r", "i", "s", "t", "o", "l", ".", "r", "u">>, parser |-> "parse_bristol"],
      [domain |-> <<"m", "y", "s", "p", "a", "r", ".", "r", "u">>, parser |-> "parse_spar"],
      [domain |-> <<"w", "i", "l", "d", "b", "e", "r", "r", "i", "e", "s", ".", "r", "u">>, parser |-> "parse_wildberries"]>>
shop_of(url) == FirstMatch(SHOPS, url, "Unknown")

Hosts ==
    {<<"m", "a", "g", "n", "i", "t", ".", "r", "u">>,
     <<"l", "e", "n", "t", "a", ".", "c", "o", "m">>,
     <<"5", "k", "a", ".", "r", "u">>,
     <<"b", "r", "i", "s", "t", "o", "l", ".", "r", "u">>,
     <<"m", "y", "s", "p", "a", "r", ".", "r", "u">>,
     <<"w", "i", "l", "d", "b", "e", "r", "r", "i", "e", "s", ".", "r", "u">>,
     <<"m", "a", "g", "n", "i", "t", "c", "o", "s", "m", "e", "t", "i", "c", ".", "r", "u">>,
     <<"o", "z", "o", "n", ".", "r", "u">>}
Paths ==
    {<<"/">>,
     <<"/", "p", "/", "1">>,
     <<"/", "p", "/", "5">>,
     <<"/", "p", "/", "1", "2", "?", "f", "r", "o", "m", "=", "l", "e", "n", "t", "a", ".", "c", "o", "m">>}
Urls ==
    {<<"h", "t", "t", "p", "s", ":", "/", "/">> \o w \o h \o q :
        w \in {<<>>, <<"w", "w", "w", ".">>}, h \in Hosts, q \in Paths}

MainSelectParser ==
    /\ mode = "PERSISTENT"
    /\ Returns("select", select_parser_by_url(probe.arg))
BotSelectShop ==
    /\ mode = "ONE_SHOT"
    /\ Returns("select", shop_of(probe.arg))

InitSelect == InitHelper("select", Urls)
NextSelect == MainSelectParser \/ BotSelectShop
SpecSelect == InitSelect /\ [][NextSelect]_vars

\* ---- the parsers
\* A page, as a parser sees it: the text of the element it takes the name
\* from ("None": no such element) and the text of the element it takes the
\* price from (shown FALSE: no such element). A parser returns
\* (product, price), or raises.
Extracted(product, price) == [raised |-> FALSE, product |-> product, price |-> price]
Raised == [raised |-> TRUE, product |-> "None", price |-> None]

\* main.py parse_lenta, parse_5ka, parse_bristol, parse_spar,
\* parse_wildberries
parse_shop(pg) ==
    Extracted(pg.name,
              IF pg.price.shown THEN parse_price_text_to_float(pg.price.text)
              ELSE None)
\* main.py parse_magnit: the first span with the rouble sign in it
parse_magnit(pg) ==
    Extracted(pg.name,
              IF pg.price.shown /\ Contains(pg.price.text, <<"rub">>)
              THEN parse_price_text_to_float(pg.price.text) ELSE None)
\* main.py parse_generic: the price is looked for in the text of the page
parse_generic(pg) ==
    Extracted(pg.name,
              parse_generic_price(IF pg.price.shown THEN pg.price.text ELSE <<>>))
parse(parser, pg) ==
    CASE parser = "parse_magnit" -> parse_magnit(pg)
      [] parser = "parse_generic" -> parse_generic(pg)
      [] OTHER -> parse_shop(pg)

\* text.replace(ch, "")
Without(t, ch) == SelectSeq(t, LAMBDA c : c # ch)
\* text.replace(",", ".")
Dotted(t) == [k \in DOMAIN t |-> IF t[k] = "," THEN "." ELSE t[k]]
\* text.strip()
RECURSIVE strip(_)
strip(t) ==
    IF t # <<>> /\ IsSpace(t[1]) THEN strip(Tail(t))
    ELSE IF t # <<>> /\ IsSpace(t[Len(t)]) THEN strip(Sub(t, 1, Len(t) - 1))
    ELSE t
\* text.split("rub")[0]
RECURSIVE BeforeCurrency(_)
BeforeCurrency(t) ==
    IF t = <<>> \/ t[1] = "rub" THEN <<>>
    ELSE <<t[1]>> \o BeforeCurrency(Tail(t))
\* float(text) of Python for texts of digits, sign, dot and other
\* characters (no exponent, no underscore): [+-]digits[.digits] with a
\* digit on one side of the dot at least, spaces around it allowed;
\* anything else raises ValueError
IsNumeral(t) ==
    LET u == IF t # <<>> /\ t[1] \in {"-", "+"} THEN Tail(t) ELSE t
        b == RunEnd(u, 1)
        c == IF b < Len(u) /\ u[b + 1] = "." THEN RunEnd(u, b + 2) ELSE b
    IN /\ u # <<>>
       /\ \/ c = Len(u) /\ b >= 1
          \/ b < Len(u) /\ u[b + 1] = "." /\ c = Len(u) /\ (b >= 1 \/ c > b + 1)
float(t) ==
    LET s == strip(t)
        u == IF s # <<>> /\ s[1] \in {"-", "+"} THEN Tail(s) ELSE s
        b == RunEnd(u, 1)
    IN Float(s[1] = "-", Sub(u, 1, b),
             IF b + 1 < Len(u) THEN Sub(u, b + 2, Len(u)) ELSE <<>>)
\* bot.py fetch_product_info: the text each branch hands to float()
price_text(shop, t) ==
    CASE shop \in {"parse_magnit", "parse_bristol"} ->
           strip(Dotted(Without(t, "rub")))
      [] shop = "parse_lenta" -> strip(Dotted(BeforeCurrency(t)))
      [] shop = "parse_5ka" -> t
      [] shop = "parse_spar" -> strip(Without(Dotted(Without(t, "rub")), "nbsp"))
      [] shop = "parse_wildberries" -> strip(Without(Without(t, "rub"), "nbsp"))
\* bot.py fetch_product_info, after the page is fetched: the branch of shop
fetch_product_info_parse(shop, pg) ==
    IF ~pg.price.shown \/ (shop = "parse_5ka" /\ pg.price.text = <<>>)
    THEN Extracted(pg.name, None)
    ELSE IF IsNumeral(strip(price_text(shop, pg.price.text)))
    THEN Extracted(pg.name, float(price_text(shop, pg.price.text)))
    ELSE Raised

PageNames == {"None", "Moloko 1 l"}
PageTexts ==
    {<<>>,
     <<"2", "5", "9">>,
     <<"2", "5", "9", ".", "9", "9">>,
     <<"2", "5", "9", ".", "9", "9", " ", "rub">>,
     <<"7", "7", ",", "9", "9", " ", "rub">>,
     <<"1", " ", "2", "9", "9", " ", "rub">>,
     <<"1", "nbsp", "2", "9", "9", "nbsp", "rub">>,
     <<"n", "/", "a">>,
     <<"n", "e", "t", " ", "v", " ", "n", "a", "l", "i", "c", "h", "i", "i">>}
Pages ==
    [name : PageNames,
     price : [shown : {TRUE}, text : PageTexts]
               \cup {[shown |-> FALSE, text |-> <<>>]}]
MainParsers ==
    {"parse_magnit", "parse_lenta", "parse_5ka", "parse_bristol", "parse_spar",
     "parse_wildberries", "parse_generic"}
BotShops == {SHOPS[k].parser : k \in DOMAIN SHOPS}

MainParse ==
    /\ mode = "PERSISTENT"
    /\ probe.arg.parser \in MainParsers
    /\ Returns("parse", parse(probe.arg.parser, probe.arg.page))
BotParse ==
    /\ mode = "ONE_SHOT"
    /\ probe.arg.parser \in BotShops
    /\ Returns("parse", fetch_product_info_parse(probe.arg.parser, probe.arg.page))

InitParse == InitHelper("parse", [parser : MainParsers, page : Pages])
NextParse == MainParse \/ BotParse
SpecParse == InitParse /\ [][NextParse]_vars

\* ------------------------------------------------------------------- Next
Next ==
    \/ MainReadSnapshot
    \/ MainStartFetch
    \/ MainNotFound
    \/ MainNoHtml
    \/ MainParsed
    \/ MainRateSleep
    \/ MainPollSleep
    \/ BotReadSnapshot
    \/ BotStartFetch
    \/ BotFetchRaised
    \/ BotParsed
    \/ BotRateSleep
    \/ BotPollSleep

Spec == Init /\ [][Next]_vars
SpecSingle == InitSingle /\ [][Next]_vars

\* two alerts of two users, swept while their owners press buttons
InitUsers ==
    /\ InitDb({1, 2}) /\ InitScheduler /\ track = FALSE /\ seq = 2
    /\ pages = {180} /\ flaky = FALSE /\ timed = FALSE /\ probe = NoProbe

NextUsers ==
    \/ Next
    \/ MainDeleteAlert
    \/ BotDeleteAlert
    \/ BotDeleteAll
    \/ BotNewThreshold

SpecUsers == InitUsers /\ [][NextUsers]_vars

\* one alert left of those created so far, swept while new ones come in
\* through /search and /alert
InitIntake ==
    /\ InitDb({1}) /\ InitScheduler /\ track = FALSE /\ seq = MaxRows - 2
    /\ pages = {180} /\ flaky = FALSE /\ timed = FALSE /\ probe = NoProbe

NextIntake ==
    \/ Next
    \/ MainProcessThreshold
    \/ MainAlertQuick
    \/ MainIntakeNoPage
    \/ MainIntakeParsed
    \/ BotProcessThreshold
    \/ BotIntakeRaised
    \/ BotIntakeParsed

SpecIntake == InitIntake /\ [][NextIntake]_vars

\* two alerts, swept against the clock
InitTimed ==
    /\ InitDb({1, 2}) /\ InitScheduler /\ track = FALSE /\ seq = 2
    /\ pages = {180} /\ flaky = FALSE /\ timed = TRUE /\ probe = NoProbe

SpecTimed == InitTimed /\ [][Next]_vars

\* the alerts of all users, and every request with what it answered
InitRequests ==
    /\ InitDb(Ids) /\ InitScheduler /\ track = TRUE /\ seq = NumAlerts
    /\ pages = Prices /\ flaky = TRUE /\ timed = FALSE /\ probe = NoProbe

NextRequests ==
    \/ MainDeleteAlert
    \/ BotDeleteAlert
    \/ BotDeleteAll
    \/ BotNewThreshold

SpecRequests == InitRequests /\ [][NextRequests]_vars

\* ================================================================== claims
\* C1: after a successful price read the Scheduler dispatches a notification
\* for the alert if and only if the price is not null, price <= threshold and
\* (last_notified_price is null or price < last_notified_price).
C1_NotifyIffRule ==
    [][(pc = "fetching" /\ ev'.outcome = "parsed" /\ ev'.healthy)
         => (ev'.tried <=>
               /\ ev'.price # NULL
               /\ ev'.price <= ev'.threshold
               /\ \/ db[ev'.id].last_notified_price = NULL
                  \/ ev'.price < db[ev'.id].last_notified_price)]_vars

\* C2: in PERSISTENT mode the number of notifications of an alert equals the
\* number of its reads whose price is <= threshold and strictly below every
\* price notified before ([180, 180] gives one notification, not two).
C2_PersistentCounts ==
    mode = "PERSISTENT" => \A i \in DOMAIN db : sent[i] = qual[i]

\* C3: in ONE_SHOT mode a read with price <= threshold sends the notification
\* and removes the alert; a removed alert never comes back, and no row the
\* sweep still has to fetch is a removed alert.
C3_OneShotConsumes ==
    /\ [][/\ (mode = "ONE_SHOT" /\ pc = "fetching" /\ ev'.outcome = "parsed"
              /\ ev'.price # NULL /\ ev'.price <= ev'.threshold /\ ev'.healthy)
               => (ev'.delivered /\ ev'.id \notin DOMAIN db')
          /\ DOMAIN db' \subseteq DOMAIN db]_vars
    /\ [](mode = "ONE_SHOT" /\ pc \in {"fetch", "fetching"}
            => \A k \in idx..Len(snapshot) : snapshot[k].id \in DOMAIN db)

C3_Witness ==
    /\ mode = "ONE_SHOT" /\ pc = "fetching"
    /\ Len(snapshot) < NumAlerts
    /\ DOMAIN db # Ids

\* C4: within one sweep over at least 3 alerts, consecutive fetches start at
\* least RATE_LIMIT_MS apart, whatever the earlier slot's outcome was.
C4_FetchGap ==
    (pc = "fetch" /\ idx > 1 /\ Len(snapshot) >= 3) => sinceFetch >= RATE_LIMIT_MS

\* C5: every alert of the snapshot has its fetch started exactly once, in
\* order, whatever happened in the earlier slots; only a sweep left through
\* the outer except (a Repository failure) ends before the last row.
C5_FailureIsolation ==
    /\ Len(fetched) <= Len(snapshot)
    /\ \A k \in 1..Len(fetched) : fetched[k] = snapshot[k].id
    /\ \A j, k \in 1..Len(fetched) : fetched[j] = fetched[k] => j = k
    /\ (pc = "poll_sleep" /\ ~aborted) => Len(fetched) = Len(snapshot)

C5_Witness ==
    /\ pc = "poll_sleep" /\ ~aborted /\ hadFault
    /\ Len(fetched) = NumAlerts
    /\ ev.outcome = "parsed" /\ ev.healthy

C7_MissPersistsNull ==
    (pc \in {"rate_sleep", "fetch", "poll_sleep"}
       /\ ev.outcome = "parsed" /\ ev.price = NULL /\ ev.healthy)
        => /\ ~ev.tried
           /\ ev.id \in DOMAIN db
           /\ db[ev.id].active
           /\ db[ev.id].price = NULL

\* C8: a transient fetch failure changes no field of any alert, and the
\* alert stays in the table, active; every snapshot holds all active alerts.
C8_TransientNoMutation ==
    [][/\ (pc = "fetching" /\ ev'.outcome = "transient")
            => (db' = db /\ ev'.id \in DOMAIN db' /\ db'[ev'.id].active)
       /\ (pc = "poll" /\ pc' = "fetch")
            => {snapshot'[k].id : k \in 1..Len(snapshot')}
                 = {i \in DOMAIN db : db[i].active}]_vars

C8_Witness ==
    /\ pc = "rate_sleep" /\ ev.outcome = "transient"
    /\ db[ev.id].price # NULL
    /\ db[ev.id].last_notified_price # NULL

\* C9: when a notification was sent at price p (and the write of
\* mark_alert_notified did not raise), the stored last_notified_price of the
\* alert is p at the end of the slot.
C9_FiredSetsLastNotified ==
    (mode = "PERSISTENT" /\ pc = "rate_sleep" /\ ev.delivered /\ ev.healthy)
        => /\ ev.id \in DOMAIN db
           /\ db[ev.id].last_notified_price = ev.price

C9_Witness ==
    /\ mode = "PERSISTENT" /\ pc = "rate_sleep" /\ ev.delivered /\ ev.healthy
    /\ ev.price = 150

\* C10: a Repository failure never terminates the Scheduler.
C10_SchedulerSurvives == pc # "terminated"

\* C11: once its owner has deactivated (main.py) or deleted (bot.py) an
\* alert, no snapshot read afterwards holds it, it never comes back, and it
\* is fetched at most once more: in the sweep whose snapshot held it already.
C11_GoneAfterDeactivation ==
    /\ [][/\ (pc = "poll" /\ pc' # "poll"
              => \A k \in DOMAIN snapshot' : Listed(db, snapshot'[k].id))
          /\ \A i \in AllIds :
                ~Listed(db, i) => ~Listed(db', i)]_vars
    /\ [](\A i \in AllIds : late[i] <= 1)

\* a deactivated alert is fetched, and notified, by the sweep in flight
C11_Witness ==
    \E i \in AllIds :
       /\ late[i] = 1 /\ ~Listed(db, i)
       /\ ev.id = i /\ ev.delivered

\* C12: a delete request whose id is of no row, or of a row of another
\* user, leaves every row as it was, and deactivate_alert returns False.
C12_ForeignDeleteRefused ==
    [][uev'.op = "delete" /\ ~Owned(db, uev'.id, uev'.user)
       => /\ db' = db
          /\ mode = "PERSISTENT" => ~uev'.ret]_vars

\* a user asked to deactivate an active alert of another user
C12_Witness ==
    /\ mode = "PERSISTENT" /\ uev.op = "delete" /\ ~uev.ret
    /\ uev.id \in DOMAIN db
    /\ db[uev.id].user_id # uev.user /\ db[uev.id].active

\* C13: deactivate_alert by the owner returns True; the alert is in neither
\* the next get_all_active_alerts() nor the owner's get_user_alerts(), and
\* both listings hold every other alert they held, each row as it was.
C13_OwnerDeactivates ==
    [][mode = "PERSISTENT" /\ uev'.op = "delete"
       /\ Owned(db, uev'.id, uev'.user)
       => LET ids(rows) == {rows[k].id : k \in DOMAIN rows}
              u == uev'.user
          IN /\ uev'.ret
             /\ ids(get_all_active_alerts(db'))
                   = ids(get_all_active_alerts(db)) \ {uev'.id}
             /\ get_user_alerts(db', u) = get_user_alerts(db, u) \ {uev'.id}
             /\ \A v \in Users \ {u} :
                   get_user_alerts(db', v) = get_user_alerts(db, v)
             /\ DOMAIN db' = DOMAIN db
             /\ \A j \in DOMAIN db \ {uev'.id} : db'[j] = db[j]]_vars

\* an owner deactivated one of two alerts: the other one is still listed
C13_Witness ==
    /\ mode = "PERSISTENT" /\ uev.op = "delete" /\ uev.ret
    /\ Owned(db, uev.id, uev.user) /\ ~db[uev.id].active
    /\ get_user_alerts(db, uev.user) # {}

\* C14: a request of a user (delete one, delete all, edit threshold),
\* whatever id it carries, leaves every row of every other user as it was.
C14_RequestsScopedToOwner ==
    [][uev'.op # "none"
       => \A j \in DOMAIN db :
             db[j].user_id # uev'.user => j \in DOMAIN db' /\ db'[j] = db[j]]_vars

\* a threshold edit carried the id of another user's alert
C14_Witness ==
    /\ uev.op = "edit" /\ uev.id \in DOMAIN db
    /\ db[uev.id].user_id # uev.user
    /\ db[uev.id].threshold = Threshold

\* C15: every stored alert has threshold >= 0, whichever handler stored or
\* edited it.
C15_ThresholdNonNegative == \A i \in DOMAIN db : db[i].threshold >= 0

\* C16: a snapshot read begins POLL_INTERVAL_SECONDS after the previous one
\* began, however many alerts the sweep between them fetched.
C16_StartsEveryInterval ==
    timed /\ pc = "poll" => sweepClock \in {0, POLL_INTERVAL_SECONDS * 1000}

\* C16, amended: the sleep after a sweep is the whole POLL_INTERVAL_SECONDS,
\* whatever the sweep took, so two snapshot reads are the sweep's duration
\* plus the interval apart; in main.py that is at least RATE_LIMIT_MS more
\* for each alert of the snapshot.
C16_SleepsWholeInterval ==
    /\ [][timed /\ pc = "poll_sleep" /\ pc' = "poll"
          => sweepClock' = sweepClock + POLL_INTERVAL_SECONDS * 1000]_vars
    /\ [](timed /\ mode = "PERSISTENT" /\ pc = "poll"
            => \/ sweepClock = 0
               \/ sweepClock >= POLL_INTERVAL_SECONDS * 1000
                                 + Cardinality(DOMAIN db) * RATE_LIMIT_MS)

\* the next sweep of two alerts is about to start, later than the interval
C16_Witness ==
    /\ timed /\ pc = "poll" /\ Cardinality(DOMAIN db) = 2
    /\ sweepClock >= POLL_INTERVAL_SECONDS * 1000 + 2 * RATE_LIMIT_MS

\* C17: when the send for an alert fails, the failure stays in the slot: the
\* sweep is not ended, the alert is written no notification, the
\* per-request delay follows, and after it the next row of the snapshot (or
\* the end of the sweep), never the same alert again.
C17_SendFailureSwallowed ==
    /\ [][pc = "fetching" /\ ev'.tried /\ ~ev'.delivered
          => /\ pc' = "rate_sleep" /\ idx' = idx /\ ~aborted'
             /\ DOMAIN db' = DOMAIN db
             /\ \A i \in DOMAIN db :
                   db'[i].last_notified_price = db[i].last_notified_price]_vars
    /\ [][pc = "rate_sleep" /\ ev.tried /\ ~ev.delivered
          => /\ idx' = idx + 1
             /\ pc' = IF idx < Len(snapshot) THEN "fetch" ELSE "poll_sleep"
             /\ pc' = "fetch" => snapshot'[idx'].id # ev.id]_vars

\* the send for one alert failed and the sweep stands at the next alert
C17_Witness ==
    /\ pc = "fetch" /\ ev.tried /\ ~ev.delivered
    /\ snapshot[idx].id # ev.id

\* C18: a threshold edited while a sweep is in flight does not end
\* monitor_alerts; the sweep in flight evaluates the alert against the
\* threshold of its snapshot, at most once after the edit, and every snapshot
\* read after the edit carries the edited threshold.
C18_OneStaleCycle ==
    /\ [][/\ (pc = "poll" /\ pc' = "fetch"
              => \A k \in DOMAIN snapshot' :
                    snapshot'[k].threshold = db[snapshot'[k].id].threshold)
          /\ (pc = "fetching" /\ ev'.outcome = "parsed"
              => ev'.threshold = snapshot[idx].threshold)]_vars
    /\ [](pc # "terminated" /\ \A i \in AllIds : stale[i] <= 1)

\* an alert was notified against the threshold its owner had just lowered
C18_Witness ==
    \E i \in AllIds :
       /\ stale[i] = 1 /\ ev.id = i
       /\ ev.threshold = Threshold /\ ev.delivered

\* C19: at most one HTTP request is in flight at any moment, the requests
\* of the intake handlers included.
C19_OneFetchInFlight == gets <= 1

\* C19, amended: monitor_alerts has at most one request in flight, and sends
\* the next after the previous has returned; every intake handler waiting
\* for its page has one more in flight, at the same time.
C19_SweepFetchesSerialized ==
    gets = Len(intake) + (IF pc = "fetching" THEN 1 ELSE 0)

\* the page of a new alert and the page of a swept alert are awaited together
C19_Witness ==
    /\ pc = "fetching" /\ intake # <<>> /\ gets = 2

\* C20: main.py removes no row, whatever happens; bot.py removes a row only
\* in the step of monitor_alerts that delivered its notification.
C20_RemovedOnlyWhenFired ==
    [][\A i \in DOMAIN db :
          i \notin DOMAIN db'
          => /\ mode = "ONE_SHOT"
             /\ pc = "fetching" /\ ev'.id = i /\ ev'.delivered]_vars

\* C20, amended: main.py removes no row; bot.py removes a row in the step of
\* monitor_alerts that delivered its notification, and when a user deletes
\* alerts, all of them that user's own.
C20_RemovedWhenFiredOrDeleted ==
    [][\/ DOMAIN db \subseteq DOMAIN db'
       \/ /\ mode = "ONE_SHOT"
          /\ \/ /\ pc = "fetching" /\ ev'.delivered
                /\ DOMAIN db \ DOMAIN db' = {ev'.id}
             \/ /\ pc' = pc /\ ev' = ev
                /\ \E u \in Users :
                      \A i \in DOMAIN db \ DOMAIN db' : db[i].user_id = u]_vars

\* before the first sweep of bot.py the owner of alert 1 has deleted it
C20_Witness ==
    /\ mode = "ONE_SHOT" /\ pc = "poll" /\ sinceFetch = 0
    /\ DOMAIN db = {2}

\* C25: a step of monitor_alerts of main.py removes and adds no row, leaves
\* user_id, link, threshold, active and created_at of every row as they
\* were, and changes no row but the one it is processing.
C25_SweepFrame ==
    [][mode = "PERSISTENT"
       => /\ DOMAIN db' = DOMAIN db
          /\ \A i \in DOMAIN db :
                /\ db'[i].user_id = db[i].user_id
                /\ db'[i].link = db[i].link
                /\ db'[i].threshold = db[i].threshold
                /\ db'[i].active = db[i].active
                /\ db'[i].created_at = db[i].created_at
                /\ db'[i] # db[i]
                     => pc = "fetching" /\ snapshot[idx].id = i]_vars

\* a sweep has written the price of one alert and left another's as it was
C25_Witness ==
    /\ mode = "PERSISTENT" /\ pc = "rate_sleep" /\ ev.price = 180
    /\ db[ev.id].price = 180
    /\ \E j \in DOMAIN db \ {ev.id} : db[j].price = 250

\* C26: monitor_alerts of bot.py removes a row only in the step that
\* delivered its notification; a send that fails leaves the table as it
\* was, and the snapshot of the next sweep holds every row of the table.
C26_ConsumedOnlyWhenDelivered ==
    [][mode = "ONE_SHOT"
       => /\ \A i \in DOMAIN db \ DOMAIN db' :
                pc = "fetching" /\ ev'.id = i /\ ev'.delivered
          /\ (pc = "fetching" /\ ev'.tried /\ ~ev'.delivered) => db' = db
          /\ (pc = "poll" /\ pc' \in {"fetch", "poll_sleep"})
                => {snapshot'[k].id : k \in DOMAIN snapshot'} = DOMAIN db]_vars

\* the sweep is over, the send for its last alert failed, the alert is stored
C26_Witness ==
    /\ mode = "ONE_SHOT" /\ pc = "poll_sleep"
    /\ ev.tried /\ ~ev.delivered /\ ev.id \in DOMAIN db

\* C27: last_notified_price is NULL in a new alert and is written only in
\* the step that delivered a notification, with the price of that
\* notification; a send that fails leaves it as it was.
C27_MarkedOnlyWhenDelivered ==
    /\ \A i \in DOMAIN db : db[i].last_notified_price = NULL
    /\ [][mode = "PERSISTENT"
          => \A i \in DOMAIN db :
                i \in DOMAIN db' /\
                (db'[i].last_notified_price # db[i].last_notified_price
                   => /\ pc = "fetching" /\ ev'.id = i /\ ev'.delivered
                      /\ db'[i].last_notified_price = ev'.price)]_vars

\* a send failed for an alert notified earlier at another price, which it keeps
C27_Witness ==
    /\ mode = "PERSISTENT" /\ ev.tried /\ ~ev.delivered
    /\ db[ev.id].last_notified_price \notin {NULL, ev.price}

\* C21: the fetch never raises and gives Success for a 2xx response,
\* NotFound for 404, TransientFailure for a timeout, a network error and
\* every other status.
C21_FetchTagsEveryOutcome ==
    (probe.fn = "fetch" /\ probe.done)
        => probe.out = IF probe.arg.kind # "response" THEN "TransientFailure"
                       ELSE IF probe.arg.status = 404 THEN "NotFound"
                       ELSE IF probe.arg.status \in 200..299 THEN "Success"
                       ELSE "TransientFailure"

\* C24: "1 234,56 ₽", "1\u00A0234.56 ₽" and "1234.56" give 1234.56; "n/a"
\* and the empty text give None; the price of the text of a price is that
\* price again.
C24_PriceNormalization ==
    (probe.fn = "price" /\ probe.done)
        => /\ probe.arg \in
                 {<<"1", " ", "2", "3", "4", ",", "5", "6", " ", "rub">>,
                  <<"1", "nbsp", "2", "3", "4", ".", "5", "6", " ", "rub">>,
                  <<"1", "2", "3", "4", ".", "5", "6">>}
              => probe.out.price =
                   [ok |-> TRUE, neg |-> FALSE, ip |-> <<"1", "2", "3", "4">>,
                    fp |-> <<"5", "6">>]
           /\ probe.arg \in {<<>>, <<"n", "/", "a">>} => ~probe.out.price.ok
           /\ probe.out.price.ok => probe.out.again = probe.out.price

\* C28: of a page whose visible text shows one price, digits (together or
\* in groups of three) followed by the rouble sign, the generic parser
\* returns the number those digits write, whole; of a page that shows no
\* such price it returns None.
C28_GenericWholeNumber ==
    (probe.fn = "generic" /\ probe.done)
        => probe.out = IF probe.arg.digits = <<>> THEN None
                       ELSE Float(FALSE, probe.arg.digits, <<>>)

\* C23: a URL is resolved to the strategy of the first of magnit.ru,
\* lenta.com, 5ka.ru, bristol.ru, myspar.ru, wildberries.ru it contains, and
\* to the generic strategy when it contains none of them.
C23_ResolvesBySignature ==
    (probe.fn = "select" /\ probe.done)
        => probe.out =
             IF Contains(probe.arg, <<"m", "a", "g", "n", "i", "t", ".", "r", "u">>) THEN "parse_magnit"
             ELSE IF Contains(probe.arg, <<"l", "e", "n", "t", "a", ".", "c", "o", "m">>) THEN "parse_lenta"
             ELSE IF Contains(probe.arg, <<"5", "k", "a", ".", "r", "u">>) THEN "parse_5ka"
             ELSE IF Contains(probe.arg, <<"b", "r", "i", "s", "t", "o", "l", ".", "r", "u">>) THEN "parse_bristol"
             ELSE IF Contains(probe.arg, <<"m", "y", "s", "p", "a", "r", ".", "r", "u">>) THEN "parse_spar"
             ELSE IF Contains(probe.arg, <<"w", "i", "l", "d", "b", "e", "r", "r", "i", "e", "s", ".", "r", "u">>) THEN "parse_wildberries"
             ELSE "parse_generic"

\* C22: every parser, on every page, returns and does not raise; the name
\* it returns is the page's (None when the page has none) whatever the price
\* text is, and the price is None when the page shows no price or a price
\* text without a number.
C22_ExtractionNeverRaises ==
    (probe.fn = "parse" /\ probe.done)
        => /\ ~probe.out.raised
           /\ probe.out.product = probe.arg.page.name
           /\ (\A k \in DOMAIN probe.arg.page.price.text :
                  ~IsDigit(probe.arg.page.price.text[k])) => ~probe.out.price.ok

====
